---- MODULE Spec2Model ----
(***************************************************************************)
(* Model of the RAG service: the /chat websocket handler (src/app.py),     *)
(* the WebsocketManager (src/services.py) and the upload pipeline's text   *)
(* functions (src/utils.py).                                               *)
(*                                                                         *)
(* Texts are sequences of one-character strings.  The vector store and the *)
(* chat model are external: either call may raise, search results are     *)
(* drawn from a small set, and an answer of the chat model is an opaque    *)
(* value named by the call that returned it (the code never reads it).     *)
(*                                                                         *)
(* The chat handler is a coroutine per connection on one event loop.  It   *)
(* yields only at its awaits (accept, receive_text, send_text): the calls  *)
(* similarity_search and llm_chat_chain are synchronous, so an iteration   *)
(* runs from the return of receive_text to the await of send_text in one   *)
(* step.                                                                   *)
(***************************************************************************)
EXTENDS Integers, Sequences, FiniteSets, TLC

\* ------------------------------------------------------------------ bounds
MaxSent == 3        \* text frames the clients send in total
MaxLen == 4         \* length of an uploaded text
MaxChunkSize == 3   \* chunk sizes tried by the upload pipeline

\* The websocket connections that may be opened.
Conns == {"A", "B"}

\* Text frames a client may send: a blank one and three questions.
Messages == {<<" ">>, <<"a">>, <<"b">>, <<"c">>}


\* Result lists of similarity_search(message, k=2): page contents, at most 2.
SearchResults == {<<>>, <<"d1", "d2">>}

\* Exceptions of the two backends (chat() treats every kind alike).
RetrievalErrors == {"RetrievalUnavailable"}
CompletionErrors == {"CompletionError"}

Unbound == "unbound"       \* a local variable not assigned yet
Disconnect == "disconnect" \* the websocket.disconnect event in the receive queue

Alphabet == {"a", " ", "."}

VARIABLES
    pc,                 \* position of each connection's chat() coroutine
    inbox,              \* frames queued by the transport for receive_text()
    active_connections, \* WebsocketManager.active_connections
    history_data,       \* chat(): the dict, as its item list in insertion order
    message,            \* chat(): local `message`
    context,            \* chat(): local `context`
    history,            \* chat(): local `history`
    response,           \* chat(): local `response`
    error,              \* the exception that left chat(), if any
    inflight,           \* messages received whose loop iteration has not ended
    turns,              \* (message, response) of every completed llm_chat_chain call
    sent,               \* text frames sent by the clients so far
    upPc,               \* position of upload_file()
    filename,           \* suffix of the uploaded file's name
    text,               \* upload_file(): extracted, then preprocessed text
    chunk_size,         \* chunk_text(): chunk_size
    text_chunks         \* upload_file(): text_chunks

chatVars == <<pc, inbox, active_connections, history_data, message, context,
              history, response, error, inflight, turns, sent>>
uploadVars == <<upPc, filename, text, chunk_size, text_chunks>>
vars == <<pc, inbox, active_connections, history_data, message, context,
          history, response, error, inflight, turns, sent,
          upPc, filename, text, chunk_size, text_chunks>>

\* ------------------------------------------------------- sequence helpers
Min(a, b) == IF a < b THEN a ELSE b

RECURSIVE Concat(_)
Concat(ss) == IF ss = <<>> THEN <<>> ELSE Head(ss) \o Concat(Tail(ss))

\* list.remove(x): drops the first element equal to x.
RECURSIVE Remove(_, _)
Remove(s, x) ==
    IF s = <<>> THEN <<>>
    ELSE IF Head(s) = x THEN Tail(s)
    ELSE <<Head(s)>> \o Remove(Tail(s), x)

SeqsUpTo(S, n) == UNION {[1..k -> S] : k \in 0..n}

\* ------------------------------------------------------------ src/utils.py
IsSpace(ch) == ch = " "
IsWord(ch) == ch = "a"

RECURSIVE LStrip(_)
LStrip(s) == IF s # <<>> /\ IsSpace(Head(s)) THEN LStrip(Tail(s)) ELSE s

RECURSIVE RStrip(_)
RStrip(s) ==
    IF s # <<>> /\ IsSpace(s[Len(s)]) THEN RStrip(SubSeq(s, 1, Len(s) - 1)) ELSE s

\* re.sub(r'\s+', ' ', text)
RECURSIVE CollapseSpaces(_)
CollapseSpaces(s) ==
    IF s = <<>> THEN <<>>
    ELSE IF IsSpace(Head(s)) THEN <<" ">> \o CollapseSpaces(LStrip(Tail(s)))
    ELSE <<Head(s)>> \o CollapseSpaces(Tail(s))

\* re.sub(r'[^\w\s]', '', text)
RemovePunctuation(s) == SelectSeq(s, LAMBDA ch : IsWord(ch) \/ IsSpace(ch))

preprocess_text(t) == RemovePunctuation(RStrip(LStrip(CollapseSpaces(t))))

\* A slice that loses the last character of every chunk.
chunk_text_short(t, size) ==
    LET starts == {i \in 0..(Len(t) - 1) : i % size = 0}
        n == Cardinality(starts)
    IN  [k \in 1..n |-> SubSeq(t, (k - 1) * size + 1, Min((k - 1) * size + size - 1, Len(t)))]

\* [text[i:i + chunk_size] for i in range(0, len(text), chunk_size)]
chunk_text(t, size) ==
    LET starts == {i \in 0..(Len(t) - 1) : i % size = 0}
        n == Cardinality(starts)
    IN  [k \in 1..n |-> SubSeq(t, (k - 1) * size + 1, Min((k - 1) * size + size, Len(t)))]

\* ------------------------------------------------------------- src/app.py
\* context += f"Context {count}: {res.page_content}\n\n" over enumerate(results, 1)
BuildContext(results) ==
    [i \in 1..Len(results) |-> [count |-> i, content |-> results[i]]]

\* history += f"({count})\nQuestion: {question}\nResponse: {response}\n\n"
\* over enumerate(history_data.items(), 1)
BuildHistory(items) ==
    [i \in 1..Len(items) |-> [count |-> i, question |-> items[i][1], response |-> items[i][2]]]

\* dict[key] = value on a dict kept as its item list: an existing key keeps its
\* place and takes the new value, a new key goes to the end.
DictSet(items, key, value) ==
    IF \E i \in 1..Len(items) : items[i][1] = key
    THEN [i \in 1..Len(items) |-> IF items[i][1] = key THEN <<key, value>> ELSE items[i]]
    ELSE Append(items, <<key, value>>)

\* chain.invoke(...): the answer to the n-th completed call of connection c.
llm_chat_chain(c, n) == [conn |-> c, call |-> n]

\* The handler of c is suspended in one of the awaits of its loop.
Running(c) == pc[c] \in {"receive", "send"}

\* The client of c has closed the connection.
ClientGone(c) == \E i \in 1..Len(inbox[c]) : inbox[c][i] = Disconnect

\* A handler that reads the next frame while an iteration is still under way.
CanReceiveAnytime(c) == Running(c)

\* receive_text() is reached at the top of the loop only.
CanReceive(c) == pc[c] = "receive"

\* One dict shared by every handler.
UpdatedHistoryShared(c, m, r) ==
    [d \in Conns |-> IF d = c \/ pc[d] # "idle"
                     THEN DictSet(history_data[d], m, r)
                     ELSE history_data[d]]

\* history_data[message] = response, on the handler's own dict.
UpdatedHistory(c, m, r) ==
    [history_data EXCEPT ![c] = DictSet(history_data[c], m, r)]

\* -------------------------------------------------------------------- Init
ChatInit ==
    /\ pc = [c \in Conns |-> "idle"]
    /\ inbox = [c \in Conns |-> <<>>]
    /\ active_connections = <<>>
    /\ history_data = [c \in Conns |-> <<>>]
    /\ message = [c \in Conns |-> Unbound]
    /\ context = [c \in Conns |-> Unbound]
    /\ history = [c \in Conns |-> Unbound]
    /\ response = [c \in Conns |-> Unbound]
    /\ error = [c \in Conns |-> "none"]
    /\ inflight = [c \in Conns |-> <<>>]
    /\ turns = [c \in Conns |-> <<>>]
    /\ sent = 0

UploadIdle ==
    /\ upPc = "idle"
    /\ filename = ".txt"
    /\ text = <<>>
    /\ chunk_size = 1
    /\ text_chunks = <<>>

Init == ChatInit /\ UploadIdle

\* ------------------------------------------------------------ chat actions
\* websocket_manager.connect(websocket); history_data = {}
Connect(c) ==
    /\ pc[c] = "idle"
    /\ pc' = [pc EXCEPT ![c] = "receive"]
    /\ active_connections' = Append(active_connections, c)
    /\ history_data' = [history_data EXCEPT ![c] = <<>>]
    /\ UNCHANGED <<inbox, message, context, history, response, error, inflight,
                   turns, sent>>
    /\ UNCHANGED uploadVars

\* The client sends a text frame; the transport queues it.
ClientSend(c, m) ==
    /\ Running(c)
    /\ ~ClientGone(c)
    /\ sent < MaxSent
    /\ sent' = sent + 1
    /\ inbox' = [inbox EXCEPT ![c] = Append(@, m)]
    /\ UNCHANGED <<pc, active_connections, history_data, message, context, history,
                   response, error, inflight, turns>>
    /\ UNCHANGED uploadVars

\* The client closes the connection; the transport queues the disconnect event.
ClientDisconnect(c) ==
    /\ Running(c)
    /\ ~ClientGone(c)
    /\ inbox' = [inbox EXCEPT ![c] = Append(@, Disconnect)]
    /\ UNCHANGED <<pc, active_connections, history_data, message, context, history,
                   response, error, inflight, turns, sent>>
    /\ UNCHANGED uploadVars

\* message = await websocket.receive_text() returns a text frame, and the
\* iteration runs to its next await: similarity_search, the context and history
\* strings, llm_chat_chain, history_data[message] = response, and the call of
\* send_message.
Handle(c, results) ==
    LET r == llm_chat_chain(c, Len(turns[c]) + 1) IN
    /\ CanReceive(c)
    /\ inbox[c] # <<>>
    /\ Head(inbox[c]) # Disconnect
    /\ message' = [message EXCEPT ![c] = Head(inbox[c])]
    /\ inbox' = [inbox EXCEPT ![c] = Tail(@)]
    /\ inflight' = [inflight EXCEPT ![c] = Append(@, Head(inbox[c]))]
    /\ context' = [context EXCEPT ![c] = BuildContext(results)]
    /\ history' = [history EXCEPT ![c] = BuildHistory(history_data[c])]
    /\ response' = [response EXCEPT ![c] = r]
    /\ history_data' = UpdatedHistory(c, Head(inbox[c]), r)
    /\ turns' = [turns EXCEPT ![c] = Append(@, <<Head(inbox[c]), r>>)]
    /\ pc' = [pc EXCEPT ![c] = "send"]
    /\ UNCHANGED <<active_connections, error, sent>>
    /\ UNCHANGED uploadVars

\* similarity_search raises: nothing in chat() catches it, the handler ends.
HandleRetrieveFail(c, e) ==
    /\ CanReceive(c)
    /\ inbox[c] # <<>>
    /\ Head(inbox[c]) # Disconnect
    /\ message' = [message EXCEPT ![c] = Head(inbox[c])]
    /\ inbox' = [inbox EXCEPT ![c] = Tail(@)]
    /\ inflight' = [inflight EXCEPT ![c] = Append(@, Head(inbox[c]))]
    /\ error' = [error EXCEPT ![c] = e]
    /\ pc' = [pc EXCEPT ![c] = "crashed"]
    /\ UNCHANGED <<active_connections, history_data, context, history, response,
                   turns, sent>>
    /\ UNCHANGED uploadVars

\* llm_chat_chain raises: nothing in chat() catches it, the handler ends.
HandleCompleteFail(c, results, e) ==
    /\ CanReceive(c)
    /\ inbox[c] # <<>>
    /\ Head(inbox[c]) # Disconnect
    /\ message' = [message EXCEPT ![c] = Head(inbox[c])]
    /\ inbox' = [inbox EXCEPT ![c] = Tail(@)]
    /\ inflight' = [inflight EXCEPT ![c] = Append(@, Head(inbox[c]))]
    /\ context' = [context EXCEPT ![c] = BuildContext(results)]
    /\ history' = [history EXCEPT ![c] = BuildHistory(history_data[c])]
    /\ error' = [error EXCEPT ![c] = e]
    /\ pc' = [pc EXCEPT ![c] = "crashed"]
    /\ UNCHANGED <<active_connections, history_data, response, turns, sent>>
    /\ UNCHANGED uploadVars

\* receive_text() raises WebSocketDisconnect; the handler calls
\* websocket_manager.disconnect(websocket) and returns.
HandleDisconnect(c) ==
    /\ CanReceive(c)
    /\ inbox[c] # <<>>
    /\ Head(inbox[c]) = Disconnect
    /\ inbox' = [inbox EXCEPT ![c] = Tail(@)]
    /\ active_connections' = Remove(active_connections, c)
    /\ pc' = [pc EXCEPT ![c] = "closed"]
    /\ UNCHANGED <<history_data, message, context, history, response, error,
                   inflight, turns, sent>>
    /\ UNCHANGED uploadVars

\* send_message returns; the loop is back at receive_text().
Send(c) ==
    /\ pc[c] = "send"
    /\ inflight' = [inflight EXCEPT ![c] = Tail(@)]
    /\ pc' = [pc EXCEPT ![c] = "receive"]
    /\ UNCHANGED <<inbox, active_connections, history_data, message, context,
                   history, response, error, turns, sent>>
    /\ UNCHANGED uploadVars

\* send_text() on a connection the client has closed raises WebSocketDisconnect
\* (the transport may also let the send pass: Send); the handler calls
\* websocket_manager.disconnect(websocket) and returns.
SendDisconnected(c) ==
    /\ pc[c] = "send"
    /\ ClientGone(c)
    /\ active_connections' = Remove(active_connections, c)
    /\ pc' = [pc EXCEPT ![c] = "closed"]
    /\ UNCHANGED <<inbox, history_data, message, context, history, response, error,
                   inflight, turns, sent>>
    /\ UNCHANGED uploadVars

Next ==
    \E c \in Conns :
        \/ Connect(c)
        \/ \E m \in Messages : ClientSend(c, m)
        \/ ClientDisconnect(c)
        \/ \E results \in SearchResults : Handle(c, results)
        \/ \E e \in RetrievalErrors : HandleRetrieveFail(c, e)
        \/ \E results \in SearchResults, e \in CompletionErrors :
               HandleCompleteFail(c, results, e)
        \/ HandleDisconnect(c)
        \/ Send(c)
        \/ SendDisconnected(c)

Spec == Init /\ [][Next]_vars

\* ---------------------------------------------------------- upload actions
\* A file arrives: its name's suffix and the text its extractor returns.
UploadInit ==
    /\ ChatInit
    /\ upPc = "extracted"
    /\ filename \in {".pdf", ".docx", ".txt", ".png"}
    /\ text \in SeqsUpTo(Alphabet, MaxLen)
    /\ chunk_size \in 1..MaxChunkSize
    /\ text_chunks = <<>>

\* raise HTTPException(status_code=400, detail="Unsupported file type")
Unsupported ==
    /\ upPc = "extracted"
    /\ filename \notin {".pdf", ".docx", ".txt"}
    /\ upPc' = "rejected"
    /\ UNCHANGED <<filename, text, chunk_size, text_chunks>>
    /\ UNCHANGED chatVars

\* preprocessed_text = preprocess_text(extracted_text)
Preprocess ==
    /\ upPc = "extracted"
    /\ filename \in {".pdf", ".docx", ".txt"}
    /\ text' = preprocess_text(text)
    /\ upPc' = "preprocessed"
    /\ UNCHANGED <<filename, chunk_size, text_chunks>>
    /\ UNCHANGED chatVars

\* text_chunks = chunk_text(preprocessed_text)
Chunk ==
    /\ upPc = "preprocessed"
    /\ text_chunks' = chunk_text(text, chunk_size)
    /\ upPc' = "chunked"
    /\ UNCHANGED <<filename, text, chunk_size>>
    /\ UNCHANGED chatVars

\* add_documents(documents, ids) and the response
Store ==
    /\ upPc = "chunked"
    /\ upPc' = "stored"
    /\ UNCHANGED <<filename, text, chunk_size, text_chunks>>
    /\ UNCHANGED chatVars

UploadNext == Unsupported \/ Preprocess \/ Chunk \/ Store

UploadSpec == UploadInit /\ [][UploadNext]_vars

\* ================================================================== claims
InList(c) == \E i \in 1..Len(active_connections) : active_connections[i] = c

\* str.strip() of the text is empty.
IsBlank(m) == \A i \in 1..Len(m) : IsSpace(m[i])

Pair(entry) == <<entry.question, entry.response>>

Items(s) == {s[i] : i \in 1..Len(s)}

\* C1: a connection never has two messages in processing at once: an
\* iteration of its loop has ended before the next message is taken.
C1_OneInFlight == \A c \in Conns : Len(inflight[c]) <= 1

\* C1 witness: two connections are both in the middle of an iteration, and a
\* second message has already arrived on one of them.
C1_Witness ==
    \E c, d \in Conns :
        /\ c # d
        /\ pc[c] = "send" /\ Len(inflight[c]) = 1
        /\ pc[d] = "send" /\ Len(inflight[d]) = 1
        /\ inbox[c] # <<>> /\ Head(inbox[c]) \in Messages

\* C2 (as claimed, maxTurns = 2): the history of a connection never holds more
\* than the maximum number of turns.
C2_HistoryBounded == \A c \in Conns : Len(history_data[c]) <= 2

\* C3 (as claimed): when the similarity query of a message fails as
\* unavailable, the handler goes on and records a turn for that message.
C3_DegradedRetrieval ==
    \A c \in Conns :
        error[c] = "RetrievalUnavailable" =>
            /\ pc[c] # "crashed"
            /\ turns[c] # <<>>
            /\ turns[c][Len(turns[c])][1] = message[c]

\* C4 (as claimed): when the completion of a message fails, the history is
\* unchanged and the connection is kept: its handler is still running.
C4_CompletionFailureKeepsConnection ==
    \A c \in Conns :
        error[c] \in CompletionErrors =>
            /\ history_data[c] = turns[c]
            /\ Running(c)

\* C5 (as claimed): a blank message is rejected before any work: no
\* completion is made for it and no turn is recorded for it.
C5_BlankRejected ==
    \A c \in Conns :
        /\ \A i \in 1..Len(turns[c]) : ~IsBlank(turns[c][i][1])
        /\ \A i \in 1..Len(history_data[c]) : ~IsBlank(history_data[c][i][1])

\* C6 (as claimed, capacity = 1): the number of live sessions never exceeds the
\* capacity.
C6_Capacity == Len(active_connections) <= 1

\* C7: the chunks of a text concatenate to the text, chunking the
\* concatenation again gives the same chunks, an empty text has no chunks, and
\* no chunk is longer than chunk_size.
C7_ChunkRoundTrip ==
    upPc \in {"chunked", "stored"} =>
        /\ Concat(text_chunks) = text
        /\ chunk_text(Concat(text_chunks), chunk_size) = text_chunks
        /\ (text = <<>> => text_chunks = <<>>)
        /\ \A i \in 1..Len(text_chunks) : Len(text_chunks[i]) <= chunk_size

\* C7 witness: a text cut into several chunks, the last one shorter.
C7_Witness ==
    /\ upPc = "chunked"
    /\ Len(text_chunks) >= 2
    /\ Len(text_chunks[Len(text_chunks)]) < chunk_size

\* C8 (as claimed): every answered message adds one turn at the end of the
\* history: the history is the list of answered turns, in order.
C8_TurnPerAnswer == \A c \in Conns : history_data[c] = turns[c]

\* C9 (as claimed): active_connections holds exactly the connections whose
\* handler is still running, each once.
C9_ActiveExact ==
    /\ \A c \in Conns : InList(c) <=> Running(c)
    /\ \A i, j \in 1..Len(active_connections) :
           active_connections[i] = active_connections[j] => i = j

\* The turns of c answered before the completion call that `history` was built for.
EarlierTurns(c) ==
    IF pc[c] = "send" THEN SubSeq(turns[c], 1, Len(turns[c]) - 1) ELSE turns[c]

\* The handler of c has built its `history` string at least once.
HistoryBuilt(c) == turns[c] # <<>> \/ error[c] \in CompletionErrors

C10_OwnHistory ==
    \A c \in Conns :
        HistoryBuilt(c) =>
            \A i \in 1..Len(history[c]) : Pair(history[c][i]) \in Items(EarlierTurns(c))

C10_Frame ==
    \A c, d \in Conns :
        (c # d /\ pc'[c] # pc[c]) =>
            /\ history_data'[d] = history_data[d]
            /\ history'[d] = history[d]

\* C10: the history passed to the completion on a connection holds only
\* question/response pairs of earlier messages of that connection, and a step
\* of one connection's handler leaves every other connection's history as it was.
C10_Isolation == []C10_OwnHistory /\ [][C10_Frame]_vars

\* C10 witness: a completion was called with a non-empty history on one
\* connection while another connection has a history of its own.
C10_Witness ==
    \E c, d \in Conns :
        /\ c # d
        /\ pc[c] = "send"
        /\ HistoryBuilt(c) /\ Len(history[c]) >= 1
        /\ history_data[d] # <<>>

====
